---- MODULE Spec2Model ----
(***************************************************************************)
(* Model of the MC/DC particle-tracking engine: Simulator.run and the     *)
(* source / history / particle loops of src/mcdc/simulator.py.            *)
(*                                                                         *)
(* Time and distance are integers in units of the kick SMALL; every group *)
(* speed is 1, so a distance d takes d ticks.  The banks are Python lists *)
(* and therefore references: the model keeps a small heap of lists and    *)
(* the four bank attributes hold list identifiers.                         *)
(***************************************************************************)
EXTENDS Integers, Sequences, FiniteSets, TLC

\* ------------------------------------------------------------------ bounds
MaxHist   == 2    \* largest N_hist
MaxIter   == 2    \* largest N_iter
MaxCensus == 2    \* largest number of finite census times
MaxBank   == 2    \* cap on the length of a bank, and so on a fission yield

\* --------------------------------------------------------------- constants
INF        == 99  \* mcdc.constant.INF
SMALL      == 1   \* mcdc.constant.SMALL, the tick
LCG_SEED   == 1   \* mcdc.constant.LCG_SEED
LCG_STRIDE == 3   \* mcdc.constant.LCG_STRIDE (scaled down)
None       == -1  \* Python None for an index

EVENT_COLLISION == "collision"
EVENT_SURFACE   == "surface"
EVENT_CENSUS    == "census"
NoEvent         == "none"

\* Distance between two finite census times.
CensusGap == 2 * SMALL

\* Largest sampled distance to collision / surface: one census interval.
MaxD == CensusGap

\* ------------------------------------------------------------------- RNG
\* RandomLCG: seed' = (g*seed + c) mod m, scaled down to a 4-bit modulus
\* with a full-period multiplier.
LCG_G   == 5
LCG_C   == 1
LCG_MOD == 2 ^ 4

\* One draw, rng(): advance the state by one.
LcgNext(seed) == (LCG_G * seed + LCG_C) % LCG_MOD

\* n draws one after the other.
RECURSIVE LcgNextN(_, _)
LcgNextN(seed, n) == IF n = 0 THEN seed ELSE LcgNextN(LcgNext(seed), n - 1)

\* The O(log n) skip: the pair (g^n, c*(g^n-1)/(g-1)) mod m by binary
\* exponentiation.  acc = <<g_new, c_new>>, gc = <<g, c>>.
RECURSIVE SkipCoeff(_, _, _)
SkipCoeff(n, acc, gc) ==
    IF n = 0 THEN acc
    ELSE SkipCoeff(n \div 2,
                   IF n % 2 = 1
                     THEN << (acc[1] * gc[1]) % LCG_MOD,
                             (acc[2] * gc[1] + gc[2]) % LCG_MOD >>
                     ELSE acc,
                   << (gc[1] * gc[1]) % LCG_MOD,
                      ((gc[1] + 1) * gc[2]) % LCG_MOD >>)

\* rng.skip_ahead(n, rebase): n strides from the base seed; with rebase the
\* result becomes the new base.
skip_ahead(r, n, rebase) ==
    LET co  == SkipCoeff(n * LCG_STRIDE, <<1, 0>>, <<LCG_G, LCG_C>>)
        new == (co[1] * r.seed_base + co[2]) % LCG_MOD
    IN  [seed |-> new, seed_base |-> IF rebase THEN new ELSE r.seed_base]

\* n calls of rng().
Draw(r, n) == [r EXCEPT !.seed = LcgNextN(r.seed, n)]

\* RandomLCG(seed, stride)
RandomLCG(seed) == [seed |-> seed, seed_base |-> seed]


\* ----------------------------------------------------------------- state
VARIABLES
    mode_eigenvalue,  \* self.mode_eigenvalue
    N_iter,           \* self.N_iter
    N_hist,           \* self.N_hist
    census_time,      \* self.census_time (a sorted sequence)
    pct,              \* self.pct: "SS" or "CO"
    work_start,       \* mcdc.mpi.work_start
    work_size,        \* mcdc.mpi.work_size
    i_iter,           \* self.i_iter
    simulation_end,   \* the local simulation_end of run()
    rng,              \* mcdc.random.rng: [seed, seed_base]
    lists,            \* the heap: list identifier -> sequence of particles
    bank_stored,      \* self.bank_stored  (a list identifier)
    bank_source,      \* self.bank_source  (a list identifier)
    bank_history,     \* self.bank_history (a list identifier)
    bank_fission,     \* self.bank_fission (a list identifier, 0 for None)
    pc,               \* position of the rank in run()
    i,                \* loop index of loop_source
    P,                \* the particle loop_particle is tracking
    event,            \* the event selected by the last tracking step
    d_coll, d_surf, d_census, d_move,   \* the distances of the step
    n_loops,          \* number of calls of loop_source so far
    n_started,        \* histories started in the current source loop
    n_closeout_history, \* calls of closeout_history in the current source loop
    cells,            \* self.cells: the cell list, each cell a slab (lo, hi)
    pos, dir,         \* P.pos (the x coordinate) and P.dir of the tracked particle
    g, cell,          \* P.g and P.cell (an index into cells, 0 for None)
    g_old, cell_old,  \* the shadow state P.g_old, P.cell_old
    xi,               \* collision(): xi = rng() * SigmaT
    reaction,         \* the branch collision() took
    rot,              \* scatter(): the branch taken and the divisor B (squared)
    scored,           \* what the last T.score(P) saw
    n_score,          \* calls of T.score for the tracked particle
    n_steps,          \* iterations of the while loop of loop_particle begun
    at_entry,         \* weight, group, cell and time at the top of the iteration
    closeouts,        \* the calls T.closeout(N, i) made so far, in order
    nuSigmaF_sum,     \* self.nuSigmaF_sum
    k_eff,            \* self.k_eff, as << numerator, denominator >>
    k_mean,           \* self.k_mean[0 .. i_iter-1]
    rng_pos,          \* positions of rng.seed_base and rng.seed, in rng() calls from LCG_SEED
    consumers         \* the ranges of positions the histories and PCT calls consumed

phase == << pos, dir, g, cell, g_old, cell_old >>
probe == << cells, xi, reaction, rot, scored, n_score, n_steps, at_entry >>
tally == << closeouts, nuSigmaF_sum, k_eff, k_mean >>
streams == << rng_pos, consumers >>

vars == << mode_eigenvalue, N_iter, N_hist, census_time, pct, work_start,
           work_size, i_iter, simulation_end, rng, lists, bank_stored,
           bank_source, bank_history, bank_fission, pc, i, P, event,
           d_coll, d_surf, d_census, d_move, n_loops, n_started,
           n_closeout_history, phase, probe, tally, streams >>

config  == << mode_eigenvalue, N_iter, N_hist, pct >>
work    == << work_start, work_size >>
refs    == << bank_stored, bank_source, bank_history, bank_fission >>
step    == << event, d_coll, d_surf, d_census, d_move >>
ghosts  == << n_loops, n_started, n_closeout_history >>

\* ------------------------------------------------------------- particles
\* Particle(pos, dir, g, time, wgt, cell, time_idx): a fresh particle is
\* alive, with an empty step record.
Particle(time, wgt, time_idx) ==
    [alive |-> TRUE, time |-> time, time_idx |-> time_idx, wgt |-> wgt,
     wgt_old |-> 0, distance |-> 0]

\* P.create_copy()
create_copy(p) == Particle(p.time, p.wgt, p.time_idx)

\* The value of P while no particle is being tracked.
NoParticle == [alive |-> FALSE, time |-> 0, time_idx |-> None, wgt |-> 0,
               wgt_old |-> 0, distance |-> 0]

\* What the sources can produce: birth times and weights (unit weights in an
\* eigenvalue run, whose banks are renormalised between the iterations).
SourceTimes   == {0, CensusGap * MaxCensus}
SourceWeights == IF mode_eigenvalue THEN {1} ELSE {1, 2}
\* Number of rng() calls inside source.get_particle().
SourceDraws   == {1}

\* source.get_particle(): no cell and no time_idx given.
get_particle(t, w) == Particle(t, w, None)

\* ---------------------------------------------------------- census grid
\* The census grids a user can configure with set_pct: 1..MaxCensus finite
\* times, or fewer followed by INF.
FiniteGrid(k) == [j \in 1..k |-> CensusGap * j]
CensusLists ==
    { FiniteGrid(k) : k \in 1..MaxCensus } \cup
    { Append(FiniteGrid(k), INF) : k \in 0..(MaxCensus - 1) }

\* census_time[k] with Python's 0-based index.
CensusAt(k) == census_time[k + 1]

\* misc.binary_search(val, grid): the index i with grid[i] <= val < grid[i+1],
\* -1 below the grid and len-1 from the last edge on.
binary_search(val, grid) ==
    Cardinality({ j \in 1..Len(grid) : grid[j] <= val }) - 1

\* Mutant of set_time_idx: a particle past the last census time is not
\* killed and keeps the index len(census_time).
set_time_idx_alive(p) ==
    LET idx == binary_search(p.time, census_time) + 1
    IN  IF idx < Len(census_time) /\ p.time = CensusAt(idx)
          THEN [p EXCEPT !.time_idx = idx + 1]
          ELSE [p EXCEPT !.time_idx = idx]

\* Simulator.set_time_idx
set_time_idx(p) ==
    LET idx == binary_search(p.time, census_time) + 1
    IN  IF idx = Len(census_time)
          THEN [p EXCEPT !.alive = FALSE, !.time_idx = None]
          ELSE IF p.time = CensusAt(idx)
                 THEN [p EXCEPT !.time_idx = idx + 1]
                 ELSE [p EXCEPT !.time_idx = idx]

\* ------------------------------------------------------------- the heap
ListIds == 1..4

\* The lists still referenced keep their content; the others are garbage.
Collect(l, live) == [id \in ListIds |-> IF id \in live THEN l[id] ELSE << >>]

\* The identifier of a list created by the expression [].
NewList(live) == CHOOSE id \in ListIds :
                    id \notin live /\ \A j \in ListIds : j < id => j \in live

\* bank.append(p)
ListAppend(l, id, p) == [l EXCEPT ![id] = Append(@, p)]

\* set_kmode: k_init, the default 1.0.
K_INIT == << 1, 1 >>

\* The values of a local that holds nothing.
NoReaction == "none"
NoRotation == [swapped |-> FALSE, B2 |-> None]
NoScore    == [wgt |-> 0, g |-> None, cell |-> 0, distance |-> 0]
NoEntry    == [wgt |-> 0, g |-> None, cell |-> 0, time |-> 0,
               dir |-> << 1, 0, 0 >>]

\* The run specification follows times, weights and banks; it leaves the
\* phase-space coordinates of the particles and the locals of one tracking
\* step at these values: one fissile cell, one group.
InitUntracked ==
    /\ cells = << >>
    /\ pos = 0 /\ dir = << 1, 0, 0 >> /\ g = 0 /\ cell = 1
    /\ g_old = None /\ cell_old = 0
    /\ xi = None
    /\ reaction = NoReaction
    /\ rot = NoRotation
    /\ scored = NoScore
    /\ n_score = 0
    /\ n_steps = 0
    /\ at_entry = NoEntry

\* set_kmode: the accumulators of the eigenvalue mode; no closeout yet.
InitTally ==
    /\ closeouts = << >>
    /\ nuSigmaF_sum = 0
    /\ k_eff = K_INIT
    /\ k_mean = << >>

\* RandomLCG(seed): the generator stands at position 0 and nothing has been
\* drawn.  Only the specification of the RNG streams follows the positions.
InitStreams ==
    /\ rng_pos = [base |-> 0, at |-> 0]
    /\ consumers = {}

\* Simulator.__init__ followed by set_kmode / set_pct.
Init ==
    /\ InitUntracked
    /\ InitTally
    /\ InitStreams
    /\ mode_eigenvalue \in BOOLEAN
    /\ N_hist \in 1..MaxHist
    /\ N_iter \in IF mode_eigenvalue THEN 1..MaxIter ELSE {1}
    /\ census_time \in CensusLists
    /\ pct \in {"SS", "CO"}
    /\ work_start = 0
    /\ work_size = 0
    /\ i_iter = 0
    /\ simulation_end = FALSE
    /\ rng = RandomLCG(LCG_SEED)
    /\ lists = [id \in ListIds |-> << >>]
    /\ bank_stored = 1
    /\ bank_source = 2
    /\ bank_history = 3
    /\ bank_fission = 0
    /\ pc = "setup"
    /\ i = 0
    /\ P = NoParticle
    /\ event = NoEvent
    /\ d_coll = 0 /\ d_surf = 0 /\ d_census = 0 /\ d_move = 0
    /\ n_loops = 0
    /\ n_started = 0
    /\ n_closeout_history = 0


\* ---------------------------------------------------------------- run()
\* run(), up to the simulation loop: the RNG is set up, the census grid is
\* forced to [INF] in eigenvalue mode, and distribute_work gives this rank
\* a contiguous range [work_start, work_start + work_size) of [0, N_hist).
RunSetup ==
    /\ pc = "setup"
    /\ rng' = RandomLCG(LCG_SEED)
    /\ census_time' = IF mode_eigenvalue THEN << INF >> ELSE census_time
    /\ \E ws \in 0..(N_hist - 1) : \E sz \in 1..(N_hist - ws) :
          /\ work_start' = ws
          /\ work_size' = sz
    /\ pc' = "loop_top"
    /\ UNCHANGED << streams, phase, probe, tally, config, i_iter, simulation_end, lists, refs, i, P, step,
                    ghosts >>

\* mcdc.mpi.work_size_total
work_size_total == N_hist

\* Mutant of FissionBank: bound once, before the simulation loop.
FissionBankStale ==
    IF bank_fission # 0 THEN bank_fission
    ELSE IF mode_eigenvalue THEN bank_stored ELSE bank_history

\* "To which bank fission neutrons are stored?"
FissionBank == IF mode_eigenvalue THEN bank_stored ELSE bank_history

\* Mutant of RebaseForSource: the skip to work_start does not rebase.
RebaseForSourceNoRebase(r) == skip_ahead(r, work_start, FALSE)

\* loop_source: "Rebase rng skip_ahead seed"
RebaseForSource(r) == skip_ahead(r, work_start, TRUE)

\* loop_source: "Initialize RNG wrt global index"
SkipToHistory(r, k) == skip_ahead(r, k, FALSE)

\* Mutant of RebaseForPct: skips this rank's own work only.
RebaseForPctLocal(r) == skip_ahead(r, work_size, TRUE)

\* run: "Rebase RNG for population control"
RebaseForPct(r) == skip_ahead(r, work_size_total - work_start, TRUE)

\* Top of the simulation loop, and the head of loop_source: bind bank_fission,
\* rebase the RNG to this rank's first history.
BeginSourceLoop ==
    /\ pc = "loop_top"
    /\ ~simulation_end
    /\ bank_fission' = FissionBank
    /\ rng' = RebaseForSource(rng)
    /\ i' = 0
    /\ n_loops' = n_loops + 1
    /\ n_started' = 0
    /\ n_closeout_history' = 0
    /\ pc' = "source"
    /\ UNCHANGED << streams, phase, probe, tally, config, census_time, work, i_iter, simulation_end, lists,
                    bank_stored, bank_source, bank_history, P, step >>

\* for i in range(work_size): rng.skip_ahead(i)
BeginHistory ==
    /\ pc = "source"
    /\ i < work_size
    /\ rng' = SkipToHistory(rng, i)
    /\ pc' = "get_source"
    /\ UNCHANGED << streams, phase, probe, tally, config, census_time, work, i_iter, simulation_end, lists,
                    refs, i, P, step, ghosts >>

\* The for loop of loop_source is exhausted: back in run().
EndSourceLoop ==
    /\ pc = "source"
    /\ i >= work_size
    /\ pc' = "closeout"
    /\ UNCHANGED << streams, phase, probe, tally, config, census_time, work, i_iter, simulation_end, rng,
                    lists, refs, i, P, step, ghosts >>

\* "Get a source particle and put into history bank": sampled from the
\* sources while bank_source is empty, else bank_source[i].  A source
\* particle no cell contains ends the run (set_cell); so does an index past
\* the end of bank_source.
GetSource ==
    /\ pc = "get_source"
    /\ IF lists[bank_source] = << >>
         THEN \E t \in SourceTimes, w \in SourceWeights, nd \in SourceDraws,
                 lost \in BOOLEAN :
                /\ rng' = Draw(rng, 1 + nd)
                /\ IF lost
                     THEN /\ pc' = "aborted"
                          /\ UNCHANGED << lists, n_started >>
                     ELSE /\ lists' = ListAppend(lists, bank_history,
                                          set_time_idx(get_particle(t, w)))
                          /\ n_started' = n_started + 1
                          /\ pc' = "history"
         ELSE /\ rng' = rng
              /\ IF i < Len(lists[bank_source])
                   THEN /\ lists' = ListAppend(lists, bank_history,
                                               lists[bank_source][i + 1])
                        /\ n_started' = n_started + 1
                        /\ pc' = "history"
                   ELSE /\ pc' = "aborted"
                        /\ UNCHANGED << lists, n_started >>
    /\ UNCHANGED << streams, phase, probe, tally, config, census_time, work, i_iter, simulation_end, refs,
                    i, P, step, n_loops, n_closeout_history >>

\* ------------------------------------------------------- loop_history
\* Mutant of PopFrom: pop(0), the first particle of the list.
PopFromFront(bank) == [particle |-> Head(bank), rest |-> Tail(bank)]

\* bank_history.pop(): the last particle of the list.
PopFrom(bank) == [particle |-> bank[Len(bank)],
                  rest     |-> SubSeq(bank, 1, Len(bank) - 1)]

\* while self.bank_history: P = self.bank_history.pop()
PopParticle ==
    /\ pc = "history"
    /\ lists[bank_history] # << >>
    /\ LET got == PopFrom(lists[bank_history])
       IN  /\ P' = got.particle
           /\ lists' = [lists EXCEPT ![bank_history] = got.rest]
    /\ pc' = "particle"
    /\ UNCHANGED << streams, phase, probe, tally, config, census_time, work, i_iter, simulation_end, rng,
                    refs, i, step, ghosts >>

\* The history bank is drained: closeout_history on every tally, and the
\* for loop of loop_source moves to the next index.
CloseoutHistory ==
    /\ pc = "history"
    /\ lists[bank_history] = << >>
    /\ n_closeout_history' = n_closeout_history + 1
    /\ i' = i + 1
    /\ pc' = "source"
    /\ UNCHANGED << streams, phase, probe, tally, config, census_time, work, i_iter, simulation_end, rng,
                    lists, refs, P, step, n_loops, n_started >>

\* while P.alive is false: loop_particle returns.
EndParticle ==
    /\ pc = "particle"
    /\ ~P.alive
    /\ P' = NoParticle
    /\ event' = NoEvent
    /\ pc' = "history"
    /\ UNCHANGED << streams, phase, probe, tally, config, census_time, work, i_iter, simulation_end, rng,
                    lists, refs, i, d_coll, d_surf, d_census, d_move, ghosts >>


\* ------------------------------------------------------- loop_particle
\* Mutant of SelectEvent: the comparisons are >=, so a tie goes to the later
\* event.
SelectEventLate(dc, ds, dn) ==
    LET first  == IF dc >= ds
                    THEN [event |-> EVENT_SURFACE,   d_move |-> ds]
                    ELSE [event |-> EVENT_COLLISION, d_move |-> dc]
    IN  IF first.d_move >= dn
          THEN [event |-> EVENT_CENSUS, d_move |-> dn]
          ELSE first

\* "Collision, surface hit, or census?": the event and the distance to move.
SelectEvent(dc, ds, dn) ==
    LET first  == IF dc > ds
                    THEN [event |-> EVENT_SURFACE,   d_move |-> ds]
                    ELSE [event |-> EVENT_COLLISION, d_move |-> dc]
    IN  IF first.d_move > dn
          THEN [event |-> EVENT_CENSUS, d_move |-> dn]
          ELSE first

\* P.save_previous_state()
save_previous_state(p) == [p EXCEPT !.wgt_old = p.wgt]

\* P.reset_record()
reset_record(p) == [p EXCEPT !.distance = 0]

\* Simulator.move_particle, with speed 1.
move_particle(p, d) == [p EXCEPT !.time = @ + d, !.distance = @ + d]

\* Distances the geometry and the collision sampling can return.
CollisionDistances == 1..MaxD
SurfaceDistances   == (0..MaxD) \cup {INF}

\* Distance to census, with speed 1.
CensusDistance(p) == CensusAt(p.time_idx) - p.time

\* The (event, d_move) pairs a tracking step of p can select.
Steps(p) ==
    { SelectEvent(dc, ds, CensusDistance(p)) :
        dc \in CollisionDistances, ds \in SurfaceDistances }

\* The time up to which the model tracks a particle: one kick past the last
\* finite census time (a finite grid never lets a particle get further).
Horizon ==
    CensusGap * Cardinality({ k \in 1..Len(census_time) : census_time[k] < INF })
        + SMALL

\* A tracking step can start: the particle is alive (while P.alive) and
\* census_time[P.time_idx] can be read; Horizon caps the simulated time.
CanStep ==
    /\ pc = "particle"
    /\ P.alive
    /\ P.time_idx \in 0..(Len(census_time) - 1)
    /\ P.time <= Horizon

\* Mutant of FissionNeutron: the progeny is born with unit weight.
FissionNeutronUnitWeight(p) == Particle(p.time, 1, p.time_idx)

\* The neutron collision_fission banks: it inherits time, weight and
\* time_idx of the particle that fissioned.
FissionNeutron(p) == Particle(p.time, p.wgt, p.time_idx)

\* n fission neutrons appended to a bank.
RECURSIVE BankFission(_, _, _)
BankFission(bank, p, n) ==
    IF n = 0 THEN bank ELSE BankFission(Append(bank, FissionNeutron(p)), p, n - 1)

\* cell.material: cross sections per cell and group, in integer units.  Only
\* group 0 of the first cell is fissile.
SigmaS(c, gr) == 1
SigmaF(c, gr) == IF c = 1 /\ gr = 0 THEN 1 ELSE 0
SigmaC(c, gr) == 1
SigmaT(c, gr) == SigmaC(c, gr) + SigmaS(c, gr) + SigmaF(c, gr)
Nu(c, gr)     == 2

\* nu * SigmaF of a cell's material in a group.
NuSigmaF(c, gr) == Nu(c, gr) * SigmaF(c, gr)

\* "Score eigenvalue tallies": the accumulator after the step of p, scored
\* with the shadow cell c and group gr.
ScoreEigenvalue(acc, p, c, gr) ==
    IF mode_eigenvalue THEN acc + p.wgt_old * p.distance * NuSigmaF(c, gr)
                       ELSE acc

\* Tracking step that ends in a collision: save the shadow state, sample
\* the distances, move, then scatter, fission or capture; score; reset the
\* step record.
Collision ==
    /\ CanStep
    /\ \E sel \in Steps(P) :
         /\ sel.event = EVENT_COLLISION
         /\ LET moved == move_particle(save_previous_state(P), sel.d_move)
            IN  /\ \/ \* collision_scattering
                      /\ P' = reset_record(moved)
                      /\ rng' = Draw(rng, 5)
                      /\ lists' = lists
                   \/ \* collision_capture
                      /\ P' = reset_record([moved EXCEPT !.alive = FALSE])
                      /\ rng' = Draw(rng, 2)
                      /\ lists' = lists
                   \/ \* collision_fission
                      \E n \in 0..(MaxBank - Len(lists[bank_fission])) :
                        /\ P' = reset_record([moved EXCEPT !.alive = FALSE])
                        /\ rng' = Draw(rng, 3 + 3 * n)
                        /\ lists' = [lists EXCEPT ![bank_fission] =
                                        BankFission(@, moved, n)]
                /\ nuSigmaF_sum' = ScoreEigenvalue(nuSigmaF_sum, moved, cell, g)
    /\ event' = EVENT_COLLISION
    /\ pc' = "particle"
    /\ UNCHANGED << streams, phase, probe, closeouts, k_eff, k_mean, config, census_time, work, i_iter, simulation_end, refs,
                    i, d_coll, d_surf, d_census, d_move, ghosts >>

\* P.surface.bc(P)
BoundaryConditions == {"vacuum", "reflective", "transmission"}
bc(kind, p) == IF kind = "vacuum" THEN [p EXCEPT !.alive = FALSE] ELSE p

\* Simulator.surface_hit: the BC, the kick, and set_cell while alive.
surface_hit(kind, p) == move_particle(bc(kind, p), SMALL)

\* Tracking step that ends on a surface.  A particle that no cell contains
\* after the kick ends the run (set_cell).
SurfaceHit ==
    /\ CanStep
    /\ \E sel \in Steps(P), kind \in BoundaryConditions :
         /\ sel.event = EVENT_SURFACE
         /\ LET hit == surface_hit(kind,
                          move_particle(save_previous_state(P), sel.d_move))
            IN  \/ /\ P' = reset_record(hit)
                   /\ nuSigmaF_sum' = ScoreEigenvalue(nuSigmaF_sum, hit, cell, g)
                   /\ pc' = "particle"
                \/ /\ hit.alive
                   /\ P' = hit
                   /\ nuSigmaF_sum' = nuSigmaF_sum
                   /\ pc' = "aborted"
    /\ rng' = Draw(rng, 1)
    /\ event' = EVENT_SURFACE
    /\ UNCHANGED << streams, phase, probe, closeouts, k_eff, k_mean, config, census_time, work, i_iter, simulation_end,
                    lists, refs, i, d_coll, d_surf, d_census, d_move, ghosts >>

\* Mutant of CrossCensus: the particle is kicked across the census time but
\* its index stays.
CrossCensusSameIdx(p) == move_particle(p, SMALL)

\* The census event applied to a particle already moved to the census time:
\* cross the boundary, increment the index.
CrossCensus(p) == [move_particle(p, SMALL) EXCEPT !.time_idx = @ + 1]

\* Mutant of NotFinalCensus: the final census is banked too.
NotFinalCensusInclusive(p) == p.time_idx <= Len(census_time)

\* "Not final census?"
NotFinalCensus(p) == p.time_idx < Len(census_time)

\* Tracking step that ends at the census time.
Census ==
    /\ CanStep
    /\ \E sel \in Steps(P) :
         /\ sel.event = EVENT_CENSUS
         /\ LET crossed == CrossCensus(
                              move_particle(save_previous_state(P), sel.d_move))
            IN  /\ IF NotFinalCensus(crossed)
                     THEN /\ Len(lists[bank_stored]) < MaxBank
                          /\ lists' = ListAppend(lists, bank_stored,
                                                 create_copy(crossed))
                     ELSE lists' = lists
                /\ P' = reset_record([crossed EXCEPT !.alive = FALSE])
                /\ nuSigmaF_sum' = ScoreEigenvalue(nuSigmaF_sum, crossed, cell, g)
    /\ rng' = Draw(rng, 1)
    /\ event' = EVENT_CENSUS
    /\ pc' = "particle"
    /\ UNCHANGED << streams, phase, probe, closeouts, k_eff, k_mean, config, census_time, work, i_iter, simulation_end,
                    refs, i, d_coll, d_surf, d_census, d_move, ghosts >>

\* ------------------------------------------ between two source loops
\* Mutant of SimulationEnd: the iteration index is compared before it is
\* incremented, and a fixed-source run ends after its first source loop.
SimulationEndStale(next_iter) ==
    IF mode_eigenvalue THEN next_iter - 1 = N_iter ELSE TRUE

\* "Simulation end?": the value simulation_end takes after a source loop,
\* given the incremented iteration index.
SimulationEnd(next_iter) ==
    IF mode_eigenvalue THEN next_iter = N_iter
                       ELSE lists[bank_stored] = << >>

\* Mutant of IterationCloseout: the tallies are closed out after every
\* source loop in fixed-source mode too.
IterationCloseoutAlways(calls) == Append(calls, << N_hist, i_iter >>)

\* "Tally closeout for eigenvalue mode": T.closeout(N_hist, i_iter).
IterationCloseout(calls) ==
    IF mode_eigenvalue THEN Append(calls, << N_hist, i_iter >>) ELSE calls

\* "Tally closeout for fixed-source mode": T.closeout(N_hist, 0).
FixedSourceCloseout(calls) ==
    IF mode_eigenvalue THEN calls ELSE Append(calls, << N_hist, 0 >>)

\* What the other ranks add in mpi.allreduce: nothing when this rank holds
\* every history.
OtherRankSums == IF work_size = work_size_total THEN {0} ELSE {0, 2}

\* mcdc.mpi.allreduce: the sum over the ranks.
allreduce(x, others) == x + others

\* Mutant of UpdateKeff: divided by this rank's number of histories.
UpdateKeffLocal(buff) == << buff, work_size >>

\* "Update keff": nuSigmaF_buff[0] / work_size_total, kept as a fraction.
UpdateKeff(buff) == << buff, work_size_total >>

\* After loop_source: the eigenvalue closeout (tallies, k_eff, k_mean, the
\* accumulator reset) and the end test.
IterCloseout ==
    /\ pc = "closeout"
    /\ closeouts' = IterationCloseout(closeouts)
    /\ IF mode_eigenvalue
         THEN \E others \in OtherRankSums :
                /\ k_eff' = UpdateKeff(allreduce(nuSigmaF_sum, others))
                /\ k_mean' = Append(k_mean, k_eff')
                /\ nuSigmaF_sum' = 0
         ELSE UNCHANGED << k_eff, k_mean, nuSigmaF_sum >>
    /\ i_iter' = IF mode_eigenvalue THEN i_iter + 1 ELSE i_iter
    /\ simulation_end' = SimulationEnd(i_iter')
    /\ pc' = "manage"
    /\ UNCHANGED << streams, phase, probe, config, census_time, work, rng, lists, refs, i, P, step,
                    ghosts >>

\* Weights are kept in integer units; quotients are rounded up.
CeilDiv(a, b) == (a + b - 1) \div b

RECURSIVE SumW(_)
SumW(bank) == IF bank = << >> THEN 0 ELSE bank[1].wgt + SumW(Tail(bank))

\* mcdc.mpi.normalize_weight(bank, N): scale the weights to a total of N.
normalize_weight(bank, N) ==
    IF bank = << >> THEN bank
    ELSE [k \in 1..Len(bank) |->
            [bank[k] EXCEPT !.wgt = CeilDiv(@ * N, SumW(bank))]]

\* "Manage particle banks", first step: the weight normalisation of the
\* eigenvalue mode.
NormalizeWeight ==
    /\ pc = "manage"
    /\ ~simulation_end
    /\ lists' = IF mode_eigenvalue
                  THEN [lists EXCEPT ![bank_stored] = normalize_weight(@, N_hist)]
                  ELSE lists
    /\ pc' = "rebase"
    /\ UNCHANGED << streams, phase, probe, tally, config, census_time, work, i_iter, simulation_end, rng,
                    refs, i, P, step, ghosts >>

\* "Rebase RNG for population control"
RebaseRng ==
    /\ pc = "rebase"
    /\ rng' = RebaseForPct(rng)
    /\ pc' = "pct"
    /\ UNCHANGED << streams, phase, probe, tally, config, census_time, work, i_iter, simulation_end, lists,
                    refs, i, P, step, ghosts >>

\* PCT_CO: N teeth, W/N apart, from the offset u (in units of 1/N); each
\* tooth selects the particle whose cumulative weight interval holds it, and
\* every survivor gets the average weight.
CombIndex(bank, N, tooth) ==
    CHOOSE k \in 1..Len(bank) :
        /\ tooth < N * SumW(SubSeq(bank, 1, k))
        /\ \A j \in 1..(k - 1) : tooth >= N * SumW(SubSeq(bank, 1, j))

PCT_CO(bank, N, u) ==
    [j \in 1..N |->
        [create_copy(bank[CombIndex(bank, N, u + (j - 1) * SumW(bank))])
            EXCEPT !.wgt = CeilDiv(SumW(bank), N)]]

\* "Population control": self.bank_stored = self.pct(self.bank_stored, N_hist).
\* PCT_SS returns the bank it is given; PCT_CO builds a new list.
PopulationControl ==
    /\ pc = "pct"
    /\ IF pct = "SS" \/ lists[bank_stored] = << >>
         THEN UNCHANGED << rng, lists, bank_stored >>
         ELSE \E u \in 0..(SumW(lists[bank_stored]) - 1) :
                LET new == NewList({bank_stored, bank_source, bank_history,
                                    bank_fission})
                IN  /\ rng' = Draw(rng, 1)
                    /\ bank_stored' = new
                    /\ lists' = Collect(
                          [lists EXCEPT ![new] =
                              PCT_CO(lists[bank_stored], N_hist, u)],
                          {new, bank_source, bank_history, bank_fission})
    /\ pc' = "rotate"
    /\ UNCHANGED << streams, phase, probe, tally, config, census_time, work, i_iter, simulation_end,
                    bank_source, bank_history, bank_fission, i, P, step,
                    ghosts >>

\* Mutant of RotateBanks: the stored bank is emptied in place
\* (bank_stored.clear()) instead of being rebound to a new list.
RotateBanksInPlace ==
    /\ pc = "rotate"
    /\ bank_source' = bank_stored
    /\ bank_stored' = bank_stored
    /\ lists' = Collect([lists EXCEPT ![bank_stored] = << >>],
                        {bank_stored, bank_history, bank_fission})
    /\ pc' = "loop_top"
    /\ UNCHANGED << streams, phase, probe, tally, config, census_time, work, i_iter,
                    simulation_end, rng, bank_history, bank_fission, i, P,
                    step, ghosts >>

\* "Set stored bank as source bank for the next iteration"
RotateBanks ==
    /\ pc = "rotate"
    /\ LET new == NewList({bank_stored, bank_history, bank_fission})
       IN  /\ bank_source' = bank_stored
           /\ bank_stored' = new
           /\ lists' = Collect([lists EXCEPT ![new] = << >>],
                               {new, bank_stored, bank_history, bank_fission})
    /\ pc' = "loop_top"
    /\ UNCHANGED << streams, phase, probe, tally, config, census_time, work, i_iter, simulation_end, rng,
                    bank_history, bank_fission, i, P, step, ghosts >>

\* The simulation has ended: both banks are rebound to empty lists.
ClearBanks ==
    /\ pc = "manage"
    /\ simulation_end
    /\ LET src == NewList({bank_stored, bank_history, bank_fission})
           sto == NewList({src, bank_history, bank_fission})
       IN  /\ bank_source' = src
           /\ bank_stored' = sto
           /\ lists' = Collect([lists EXCEPT ![src] = << >>, ![sto] = << >>],
                               {src, sto, bank_history, bank_fission})
    /\ pc' = "loop_top"
    /\ UNCHANGED << streams, phase, probe, tally, config, census_time, work, i_iter, simulation_end, rng,
                    bank_history, bank_fission, i, P, step, ghosts >>

\* The while loop is left: the fixed-source closeout, and run() returns.
FinalCloseout ==
    /\ pc = "loop_top"
    /\ simulation_end
    /\ closeouts' = FixedSourceCloseout(closeouts)
    /\ pc' = "done"
    /\ UNCHANGED << streams, phase, probe, nuSigmaF_sum, k_eff, k_mean, config, census_time, work, i_iter, simulation_end, rng,
                    lists, refs, i, P, step, ghosts >>

Next ==
    \/ RunSetup
    \/ BeginSourceLoop
    \/ BeginHistory
    \/ EndSourceLoop
    \/ GetSource
    \/ PopParticle
    \/ CloseoutHistory
    \/ Collision
    \/ SurfaceHit
    \/ Census
    \/ EndParticle
    \/ IterCloseout
    \/ NormalizeWeight
    \/ RebaseRng
    \/ PopulationControl
    \/ RotateBanks
    \/ ClearBanks
    \/ FinalCloseout

Spec == Init /\ [][Next]_vars

\* A fixed-source run, as set_kmode was never called.
InitFixedSource == Init /\ ~mode_eigenvalue

\* run() is sequential code: the statement it stands at is executed.
SpecFixedSource == InitFixedSource /\ [][Next]_vars /\ WF_vars(Next)


\* ------------------------------------------- the event selection alone
\* The distances the selection is applied to: negative (a census time
\* already passed), zero, finite and infinite.
SelectionDistances == ((0 - SMALL)..MaxD) \cup {INF}

InitEvent ==
    /\ InitUntracked
    /\ InitTally
    /\ InitStreams
    /\ mode_eigenvalue = FALSE
    /\ N_hist = 1
    /\ N_iter = 1
    /\ census_time = << INF >>
    /\ pct = "SS"
    /\ work_start = 0
    /\ work_size = 1
    /\ i_iter = 0
    /\ simulation_end = FALSE
    /\ rng = RandomLCG(LCG_SEED)
    /\ lists = [id \in ListIds |-> << >>]
    /\ bank_stored = 1
    /\ bank_source = 2
    /\ bank_history = 3
    /\ bank_fission = 3
    /\ pc = "select"
    /\ i = 0
    /\ P = Particle(0, 1, 0)
    /\ event = NoEvent
    /\ d_coll \in SelectionDistances
    /\ d_surf \in SelectionDistances
    /\ d_census \in SelectionDistances
    /\ d_move = 0
    /\ n_loops = 1
    /\ n_started = 1
    /\ n_closeout_history = 0

\* "Choose event" on the three distances of the step.
ChooseEvent ==
    /\ pc = "select"
    /\ LET sel == SelectEvent(d_coll, d_surf, d_census)
       IN  /\ event' = sel.event
           /\ d_move' = sel.d_move
    /\ pc' = "selected"
    /\ UNCHANGED << streams, phase, probe, tally, config, census_time, work, i_iter, simulation_end, rng,
                    lists, refs, i, P, d_coll, d_surf, d_census, ghosts >>

SpecEvent == InitEvent /\ [][ChooseEvent]_vars

\* ------------------------------------- one particle, statement by statement
\* The history of one source particle from source.get_particle() to the end
\* of loop_particle, one action per statement group of the while loop,
\* with the phase-space coordinates and the geometry the run specification
\* leaves out.  Secondaries are banked and not followed.

\* Energy groups, and the unit directions the samplers return.
Groups     == {0, 1}
Directions == { << 1, 0, 0 >>, << -1, 0, 0 >>, << 0, 0, 1 >>, << 0, 0, -1 >> }

\* The slabs a cell list is made of, and the cell lists of the inputs: one
\* slab, two adjacent slabs, two overlapping slabs, a gap.
Slab(lo, hi) == [lo |-> lo, hi |-> hi]
CellLists ==
    { << Slab(-2, 2) >>,
      << Slab(-2, 2), Slab(2, 6) >>,
      << Slab(-2, 4), Slab(0, 6) >>,
      << Slab(0, 6), Slab(-2, 4) >>,
      << Slab(-2, 1) >> }

\* cell.test_point(pos): strictly between the two bounding planes.
test_point(c, x) == c.lo < x /\ x < c.hi

\* Mutant of set_cell: no break, the last accepting cell wins.
set_cell_last(x) ==
    LET ok == { k \in 1..Len(cells) : test_point(cells[k], x) }
    IN  IF ok = {} THEN 0 ELSE CHOOSE k \in ok : \A j \in ok : j <= k

\* Simulator.set_cell: the first cell of the list that accepts the point,
\* 0 (C == None, the run exits) when none does.
set_cell(x) ==
    LET ok == { k \in 1..Len(cells) : test_point(cells[k], x) }
    IN  IF ok = {} THEN 0 ELSE CHOOSE k \in ok : \A j \in ok : k <= j

\* Mutant of collision: fission is tested before scattering.
collision_fission_first(x, c, gr) ==
    IF SigmaF(c, gr) > x THEN "fission"
    ELSE IF SigmaS(c, gr) + SigmaF(c, gr) > x THEN "scatter"
    ELSE "capture"

\* Simulator.collision: the reaction sampled by xi = rng() * SigmaT.
collision(x, c, gr) ==
    IF SigmaS(c, gr) > x THEN "scatter"
    ELSE IF SigmaS(c, gr) + SigmaF(c, gr) > x THEN "fission"
    ELSE "capture"

\* Simulator.scatter: the branch of the rotation and the square of its
\* divisor B, 1 - dir.z^2 or, with y and z interchanged, 1 - dir.y^2.
scatter(d) ==
    IF d[3] # 1
      THEN [swapped |-> FALSE, B2 |-> 1 - d[3] * d[3]]
      ELSE [swapped |-> TRUE,  B2 |-> 1 - d[2] * d[2]]

\* A source particle: its phase-space point, and a cell if the source gives
\* one.
InitParticle ==
    /\ InitTally
    /\ InitStreams
    /\ mode_eigenvalue \in BOOLEAN
    /\ N_hist = 1
    /\ N_iter = 1
    /\ census_time \in IF mode_eigenvalue THEN { << INF >> } ELSE CensusLists
    /\ pct = "SS"
    /\ work_start = 0
    /\ work_size = 1
    /\ i_iter = 0
    /\ simulation_end = FALSE
    /\ rng = RandomLCG(LCG_SEED)
    /\ lists = [id \in ListIds |-> << >>]
    /\ bank_stored = 1
    /\ bank_source = 2
    /\ bank_history = 3
    /\ bank_fission = IF mode_eigenvalue THEN bank_stored ELSE bank_history
    /\ pc = "new_source"
    /\ i = 0
    /\ \E t \in SourceTimes, w \in SourceWeights : P = get_particle(t, w)
    /\ event = NoEvent
    /\ d_coll = 0 /\ d_surf = 0 /\ d_census = 0 /\ d_move = 0
    /\ n_loops = 1
    /\ n_started = 1
    /\ n_closeout_history = 0
    /\ cells \in CellLists
    /\ pos = 0
    /\ dir \in Directions
    /\ g \in Groups
    /\ cell \in {0, 1}
    /\ g_old = None /\ cell_old = 0
    /\ xi = None
    /\ reaction = NoReaction
    /\ rot = NoRotation
    /\ scored = NoScore
    /\ n_score = 0
    /\ n_steps = 0
    /\ at_entry = [NoEntry EXCEPT !.cell = cell]

\* loop_source, for a sampled particle: set the cell if the source gave none
\* (a lost particle exits), set time_idx, and hand the particle to
\* loop_particle through bank_history.
SourceParticle ==
    /\ pc = "new_source"
    /\ LET c == IF cell = 0 THEN set_cell(pos) ELSE cell
       IN  IF c = 0
             THEN /\ pc' = "lost"
                  /\ UNCHANGED << P, cell >>
             ELSE /\ cell' = c
                  /\ P' = set_time_idx(P)
                  /\ pc' = "loop"
    /\ UNCHANGED << streams, tally, config, census_time, work, i_iter, simulation_end,
                    rng, lists, refs, i, step, ghosts, cells, pos, dir, g,
                    g_old, cell_old, xi, reaction, rot, scored, n_score,
                    n_steps, at_entry >>

\* while P.alive: P.save_previous_state()
SavePreviousState ==
    /\ pc = "loop"
    /\ P.alive
    /\ P.time_idx \in 0..(Len(census_time) - 1)
    /\ P.time <= Horizon
    /\ P' = save_previous_state(P)
    /\ g_old' = g
    /\ cell_old' = cell
    /\ at_entry' = [wgt |-> P.wgt, g |-> g, cell |-> cell, time |-> P.time,
                     dir |-> dir]
    /\ n_steps' = n_steps + 1
    /\ pc' = "distances"
    /\ UNCHANGED << streams, tally, config, census_time, work, i_iter, simulation_end,
                    rng, lists, refs, i, step, ghosts, cells, pos, dir, g,
                    cell, xi, reaction, rot, scored, n_score >>

\* while P.alive is false: loop_particle returns.
ReturnFromLoop ==
    /\ pc = "loop"
    /\ ~P.alive
    /\ pc' = "returned"
    /\ UNCHANGED << streams, phase, probe, tally, config, census_time, work, i_iter,
                    simulation_end, rng, lists, refs, i, P, step, ghosts >>

\* "Get distances to events"
GetDistances ==
    /\ pc = "distances"
    /\ \E dc \in CollisionDistances, ds \in SurfaceDistances :
         /\ d_coll' = dc
         /\ d_surf' = ds
    /\ d_census' = CensusDistance(P)
    /\ rng' = Draw(rng, 1)
    /\ pc' = "select"
    /\ UNCHANGED << streams, phase, probe, tally, config, census_time, work, i_iter,
                    simulation_end, lists, refs, i, P, event, d_move, ghosts >>

\* "Move to event"
MoveToEvent ==
    /\ pc = "selected"
    /\ P' = move_particle(P, d_move)
    /\ pos' = pos + dir[1] * d_move
    /\ pc' = "perform"
    /\ UNCHANGED << streams, probe, tally, config, census_time, work, i_iter,
                    simulation_end, rng, lists, refs, i, step, ghosts, dir, g,
                    cell, g_old, cell_old >>

\* event == EVENT_COLLISION: collision(P).  Scattering samples the outgoing
\* group and rotates the direction; a zero divisor in the rotation raises.
PerformCollision ==
    /\ pc = "perform"
    /\ event = EVENT_COLLISION
    /\ \E x \in 0..(SigmaT(cell, g) - 1) :
         /\ xi' = x
         /\ reaction' = collision(x, cell, g)
         /\ \/ /\ reaction' = "scatter"
               /\ rot' = scatter(dir)
               /\ lists' = lists
               /\ IF rot'.B2 = 0
                    THEN /\ rng' = Draw(rng, 4)
                         /\ pc' = "zero_division"
                         /\ UNCHANGED << P, g, dir >>
                    ELSE /\ rng' = Draw(rng, 4)
                         /\ pc' = "score"
                         /\ P' = P
                         /\ g' \in Groups
                         /\ dir' \in Directions
            \/ /\ reaction' = "capture"
               /\ P' = [P EXCEPT !.alive = FALSE]
               /\ rng' = Draw(rng, 1)
               /\ lists' = lists
               /\ pc' = "score"
               /\ UNCHANGED << rot, g, dir >>
            \/ /\ reaction' = "fission"
               /\ \E n \in 0..(MaxBank - Len(lists[bank_fission])) :
                    /\ P' = [P EXCEPT !.alive = FALSE]
                    /\ rng' = Draw(rng, 2 + 3 * n)
                    /\ lists' = [lists EXCEPT ![bank_fission] =
                                    BankFission(@, P, n)]
               /\ pc' = "score"
               /\ UNCHANGED << rot, g, dir >>
    /\ UNCHANGED << streams, tally, config, census_time, work, i_iter, simulation_end,
                    refs, i, step, ghosts, cells, pos, cell, g_old, cell_old,
                    scored, n_score, n_steps, at_entry >>

\* surface.bc(P) on the direction: a reflective surface (a plane normal to
\* x) turns the direction around.
reflect(kind, d) == IF kind = "reflective" THEN << 0 - d[1], d[2], d[3] >> ELSE d

\* event == EVENT_SURFACE: surface_hit(P): the BC, the kick, and set_cell
\* while the particle is alive (a lost particle exits).
PerformSurface ==
    /\ pc = "perform"
    /\ event = EVENT_SURFACE
    /\ \E kind \in BoundaryConditions :
         LET hit  == surface_hit(kind, P)
             ndir == reflect(kind, dir)
             npos == pos + ndir[1] * SMALL
             c    == set_cell(npos)
         IN  /\ P' = hit
             /\ dir' = ndir
             /\ pos' = npos
             /\ IF hit.alive
                  THEN IF c = 0 THEN pc' = "lost" /\ cell' = cell
                                ELSE pc' = "score" /\ cell' = c
                  ELSE pc' = "score" /\ cell' = cell
    /\ UNCHANGED << streams, tally, config, census_time, work, i_iter, simulation_end,
                    rng, lists, refs, i, step, ghosts, cells, g, g_old,
                    cell_old, xi, reaction, rot, scored, n_score, n_steps,
                    at_entry >>

\* event == EVENT_CENSUS: cross the time boundary, increment the index, bank
\* a copy unless the census is the final one, kill.
PerformCensus ==
    /\ pc = "perform"
    /\ event = EVENT_CENSUS
    /\ LET crossed == CrossCensus(P)
       IN  /\ IF NotFinalCensus(crossed)
                THEN /\ Len(lists[bank_stored]) < MaxBank
                     /\ lists' = ListAppend(lists, bank_stored,
                                            create_copy(crossed))
                ELSE lists' = lists
           /\ P' = [crossed EXCEPT !.alive = FALSE]
    /\ pos' = pos + dir[1] * SMALL
    /\ pc' = "score"
    /\ UNCHANGED << streams, probe, tally, config, census_time, work, i_iter,
                    simulation_end, rng, refs, i, step, ghosts, dir, g, cell,
                    g_old, cell_old >>

\* Mutant of ScoreTallies: a particle the event killed is not scored.
ScoreTalliesAlive ==
    /\ pc = "score"
    /\ IF P.alive
         THEN /\ scored' = [wgt |-> P.wgt_old, g |-> g_old, cell |-> cell_old,
                            distance |-> P.distance]
              /\ n_score' = n_score + 1
              /\ nuSigmaF_sum' = ScoreEigenvalue(nuSigmaF_sum, P, cell_old, g_old)
         ELSE UNCHANGED << scored, n_score, nuSigmaF_sum >>
    /\ pc' = "reset"
    /\ UNCHANGED << streams, phase, config, census_time, work, i_iter, simulation_end,
                    rng, lists, refs, i, P, step, ghosts, cells, xi, reaction,
                    rot, n_steps, at_entry, closeouts, k_eff, k_mean >>

\* "Scores": T.score(P) on every tally, then the eigenvalue accumulator.
ScoreTallies ==
    /\ pc = "score"
    /\ scored' = [wgt |-> P.wgt_old, g |-> g_old, cell |-> cell_old,
                  distance |-> P.distance]
    /\ n_score' = n_score + 1
    /\ nuSigmaF_sum' = ScoreEigenvalue(nuSigmaF_sum, P, cell_old, g_old)
    /\ pc' = "reset"
    /\ UNCHANGED << streams, phase, config, census_time, work, i_iter, simulation_end,
                    rng, lists, refs, i, P, step, ghosts, cells, xi, reaction,
                    rot, n_steps, at_entry, closeouts, k_eff, k_mean >>

\* "Closeout": P.reset_record(), and the locals of the iteration go.
ResetRecord ==
    /\ pc = "reset"
    /\ P' = reset_record(P)
    /\ event' = NoEvent
    /\ d_coll' = 0 /\ d_surf' = 0 /\ d_census' = 0 /\ d_move' = 0
    /\ xi' = None
    /\ reaction' = NoReaction
    /\ rot' = NoRotation
    /\ scored' = NoScore
    /\ pc' = "loop"
    /\ UNCHANGED << streams, phase, tally, config, census_time, work, i_iter,
                    simulation_end, rng, lists, refs, i, ghosts, cells,
                    n_score, n_steps, at_entry >>

NextParticle ==
    \/ SourceParticle
    \/ SavePreviousState
    \/ ReturnFromLoop
    \/ GetDistances
    \/ ChooseEvent
    \/ MoveToEvent
    \/ PerformCollision
    \/ PerformSurface
    \/ PerformCensus
    \/ ScoreTallies
    \/ ResetRecord

SpecParticle == InitParticle /\ [][NextParticle]_vars


\* ------------------------------------------------ the RNG streams alone
\* run() reduced to its consumers of random numbers: the rebases and skips
\* of run() and loop_source as coded, a history as the rng() calls it makes
\* and the particles it leaves in bank_stored, the PCT call as its draws.

\* Numbers of rng() calls one history can make: none (a banked particle that
\* is dead on arrival), one, a full stride, more than a stride.
HistoryDraws == {0, 1, LCG_STRIDE, LCG_STRIDE + 1}

\* rng.skip_ahead(n, rebase) in positions: n strides from the base.
skip_ahead_pos(rp, n, rebase) ==
    LET new == rp.base + n * LCG_STRIDE
    IN  [at |-> new, base |-> IF rebase THEN new ELSE rp.base]

\* n calls of rng() in positions.
draw_pos(rp, n) == [rp EXCEPT !.at = @ + n]

\* A consumer and the positions [lo, hi) it drew: the history with global
\* index k of source loop `loop`, or the PCT call after that source loop.
Consumer(kind, loop, k, lo, hi) ==
    [kind |-> kind, loop |-> loop, k |-> k, lo |-> lo, hi |-> hi]

\* A history can leave a particle in bank_stored: a fission neutron in an
\* eigenvalue run, a census survivor before the final census otherwise.
CanBank == mode_eigenvalue \/ n_loops < Len(census_time)
StoredParticle == Particle(0, 1, IF mode_eigenvalue THEN 0 ELSE n_loops)

\* Top of the simulation loop and the head of loop_source.
StreamSourceLoop ==
    /\ pc = "loop_top"
    /\ ~simulation_end
    /\ bank_fission' = FissionBank
    /\ rng' = RebaseForSource(rng)
    /\ rng_pos' = skip_ahead_pos(rng_pos, work_start, TRUE)
    /\ i' = 0
    /\ n_loops' = n_loops + 1
    /\ n_started' = 0
    /\ n_closeout_history' = 0
    /\ pc' = "source"
    /\ UNCHANGED << consumers, phase, probe, tally, config, census_time, work,
                    i_iter, simulation_end, lists, bank_stored, bank_source,
                    bank_history, P, step >>

\* for i in range(work_size): rng.skip_ahead(i)
StreamSkipToHistory ==
    /\ pc = "source"
    /\ i < work_size
    /\ rng' = SkipToHistory(rng, i)
    /\ rng_pos' = skip_ahead_pos(rng_pos, i, FALSE)
    /\ pc' = "get_source"
    /\ UNCHANGED << consumers, phase, probe, tally, config, census_time, work,
                    i_iter, simulation_end, lists, refs, i, P, step, ghosts >>

\* One pass of the body of the for loop: the source particle (sampled, with
\* at least the draw of xi, or bank_source[i]) and loop_history.
StreamHistory ==
    /\ pc = "get_source"
    /\ IF lists[bank_source] # << >> /\ i >= Len(lists[bank_source])
         THEN /\ pc' = "aborted"
              /\ UNCHANGED << rng, streams, lists, i, n_started,
                              n_closeout_history >>
         ELSE \E d \in HistoryDraws, banks \in BOOLEAN :
                /\ lists[bank_source] = << >> => d >= 1
                /\ banks => (CanBank /\ Len(lists[bank_stored]) < MaxBank)
                /\ rng' = Draw(rng, d)
                /\ rng_pos' = draw_pos(rng_pos, d)
                /\ consumers' = consumers \cup
                      { Consumer("history", n_loops - 1, work_start + i,
                                 rng_pos.at, rng_pos.at + d) }
                /\ lists' = IF banks
                              THEN ListAppend(lists, bank_stored, StoredParticle)
                              ELSE lists
                /\ i' = i + 1
                /\ n_started' = n_started + 1
                /\ n_closeout_history' = n_closeout_history + 1
                /\ pc' = "source"
    /\ UNCHANGED << phase, probe, tally, config, census_time, work, i_iter,
                    simulation_end, refs, P, step, n_loops >>

\* "Rebase RNG for population control"
StreamRebaseForPct ==
    /\ pc = "rebase"
    /\ rng' = RebaseForPct(rng)
    /\ rng_pos' = skip_ahead_pos(rng_pos, work_size_total - work_start, TRUE)
    /\ pc' = "pct"
    /\ UNCHANGED << consumers, phase, probe, tally, config, census_time, work,
                    i_iter, simulation_end, lists, refs, i, P, step, ghosts >>

\* "Population control": PCT_SS draws nothing, PCT_CO draws its offset.
StreamPct ==
    /\ pc = "pct"
    /\ IF pct = "SS" \/ lists[bank_stored] = << >>
         THEN /\ consumers' = consumers \cup
                    { Consumer("pct", n_loops - 1, 0, rng_pos.at, rng_pos.at) }
              /\ UNCHANGED << rng, rng_pos, lists, bank_stored >>
         ELSE \E u \in 0..(SumW(lists[bank_stored]) - 1) :
                LET new == NewList({bank_stored, bank_source, bank_history,
                                    bank_fission})
                IN  /\ rng' = Draw(rng, 1)
                    /\ rng_pos' = draw_pos(rng_pos, 1)
                    /\ consumers' = consumers \cup
                          { Consumer("pct", n_loops - 1, 0,
                                     rng_pos.at, rng_pos.at + 1) }
                    /\ bank_stored' = new
                    /\ lists' = Collect(
                          [lists EXCEPT ![new] =
                              PCT_CO(lists[bank_stored], N_hist, u)],
                          {new, bank_source, bank_history, bank_fission})
    /\ pc' = "rotate"
    /\ UNCHANGED << phase, probe, tally, config, census_time, work, i_iter,
                    simulation_end, bank_source, bank_history, bank_fission,
                    i, P, step, ghosts >>

NextStreams ==
    \/ RunSetup
    \/ StreamSourceLoop
    \/ StreamSkipToHistory
    \/ StreamHistory
    \/ EndSourceLoop
    \/ IterCloseout
    \/ NormalizeWeight
    \/ StreamRebaseForPct
    \/ StreamPct
    \/ RotateBanks
    \/ ClearBanks
    \/ FinalCloseout

SpecStreams == Init /\ [][NextStreams]_vars


\* ================================================================ claims

\* The n-th state of the generator after seed, one draw at a time.
Advance(seed, n) == LcgNextN(seed, n)

\* The base seed of the current source loop: the run's seed advanced by one
\* stride for every history of every earlier source loop.
IterationBase == Advance(LCG_SEED, (n_loops - 1) * N_hist * LCG_STRIDE)

\* C1: the history with global index k = work_start + i starts from the
\* iteration's base seed advanced by exactly k strides, whatever the rank's
\* range and whatever earlier histories drew.
C1_HistorySeed ==
    pc = "get_source" =>
        rng.seed = Advance(IterationBase, (work_start + i) * LCG_STRIDE)

\* C1 witness: a history of a rank that does not start at 0, in a second
\* source loop.
C1_Witness ==
    /\ pc = "get_source"
    /\ n_loops = 2
    /\ work_start = 1
    /\ work_start + i = 1

\* C2: when population control is about to run, the RNG stands at its base,
\* and that base is the iteration's base advanced by work_size_total strides.
C2_PctSeed ==
    pc = "pct" =>
        /\ rng.seed = rng.seed_base
        /\ rng.seed_base = Advance(IterationBase, N_hist * LCG_STRIDE)

\* C2 witness: population control is about to run on a rank whose range does
\* not start at 0, after a source loop that drew from the RNG.
C2_Witness ==
    /\ pc = "pct"
    /\ work_start = 1
    /\ rng.seed # LCG_SEED

\* C3: the selected event is the minimum of the three distances, d_move is
\* that minimum, and a tie goes to the earlier of collision, surface, census.
C3_EventSelection ==
    pc = "selected" =>
        LET m == IF d_coll <= d_surf /\ d_coll <= d_census THEN d_coll
                 ELSE IF d_surf <= d_census THEN d_surf ELSE d_census
        IN  /\ d_move = m
            /\ event = IF d_coll = m THEN EVENT_COLLISION
                       ELSE IF d_surf = m THEN EVENT_SURFACE
                       ELSE EVENT_CENSUS

\* C3 witness: surface and census tie below the collision distance, and the
\* surface is selected.
C3_Witness ==
    /\ pc = "selected"
    /\ d_surf = d_census
    /\ d_surf < d_coll
    /\ d_coll = INF
    /\ event = EVENT_SURFACE


\* A tracking step of loop_particle is taken between this state and the next.
TrackingStep == CanStep /\ P' # P

\* The particles a step appended to the list id.
Appended(id) == SubSeq(lists'[id], Len(lists[id]) + 1, Len(lists'[id]))

\* C4, census step: time_idx goes up by exactly one, the particle is killed,
\* and a copy with the new index is banked iff the new index is not the last.
C4_CensusStep ==
    (TrackingStep /\ event' = EVENT_CENSUS) =>
        /\ P'.time_idx = P.time_idx + 1
        /\ ~P'.alive
        /\ IF P'.time_idx < Len(census_time)
             THEN /\ Len(Appended(bank_stored)) = 1
                  /\ Appended(bank_stored)[1].time_idx = P'.time_idx
                  /\ Appended(bank_stored)[1].alive
             ELSE lists'[bank_stored] = lists[bank_stored]

\* C4, bank: no stored particle is at or past the end of the census grid.
C4_StoredInGrid ==
    \A k \in 1..Len(lists[bank_stored]) :
        lists[bank_stored][k].time_idx < Len(census_time)

\* C4: every census event increments time_idx by one and kills; the copy is
\* banked iff the census is not the final one, so bank_stored never holds a
\* particle with time_idx >= len(census_time).
C4_CensusTerminates == [][C4_CensusStep]_vars /\ []C4_StoredInGrid

\* C4 witness: a particle has reached the final census of a grid with two
\* census times and was killed without being banked.
C4_Witness ==
    /\ pc = "particle"
    /\ event = EVENT_CENSUS
    /\ ~P.alive
    /\ Len(census_time) = 2
    /\ P.time_idx = Len(census_time)
    /\ lists[bank_stored] = << >>

\* C5, banks and counters: bank_history is empty between histories; the
\* histories of a source loop start one after the other in index order, and
\* closeout_history has run once for each completed history.
C5_HistoryOrder ==
    /\ pc \in {"source", "get_source", "closeout"} =>
          /\ lists[bank_history] = << >>
          /\ n_started = i
          /\ n_closeout_history = i
    /\ pc \in {"history", "particle"} =>
          /\ n_started = i + 1
          /\ n_closeout_history = i

\* C5, drain: a particle leaves bank_history only from its end.
C5_PopLast ==
    Len(lists'[bank_history]) < Len(lists[bank_history]) =>
        /\ P' = lists[bank_history][Len(lists[bank_history])]
        /\ lists'[bank_history] =
              SubSeq(lists[bank_history], 1, Len(lists[bank_history]) - 1)

\* C5: bank_history is drained last-in-first-out and is empty when
\* loop_history returns; histories run one at a time in index order and
\* closeout_history runs once per history, after the drain.
C5_HistoryBank == []C5_HistoryOrder /\ [][C5_PopLast]_vars

\* C5 witness: the second history of a source loop tracks a particle while
\* a secondary born at another time waits in bank_history.
C5_Witness ==
    /\ pc = "particle"
    /\ i = 1
    /\ lists[bank_history] # << >>
    /\ lists[bank_history][1].time # P.time

\* C6 as stated: every particle in bank_history is alive.
C6_HistoryBankAlive ==
    \A k \in 1..Len(lists[bank_history]) : lists[bank_history][k].alive

\* census_time[time_idx-1] <= t < census_time[time_idx], with census_time[-1]
\* read as minus infinity.
InCensusBin(p) ==
    /\ p.time_idx \in 0..(Len(census_time) - 1)
    /\ p.time < CensusAt(p.time_idx)
    /\ p.time_idx > 0 => CensusAt(p.time_idx - 1) <= p.time

\* C7 as stated, for the particles that are alive: the particle entering a
\* tracking step and every banked particle lie in the census bin time_idx
\* names.
C7_TimeIdxBin ==
    /\ (pc = "particle" /\ P.alive) => InCensusBin(P)
    /\ \A id \in {bank_history, bank_source, bank_stored} :
          \A k \in 1..Len(lists[id]) :
              lists[id][k].alive => InCensusBin(lists[id][k])

\* C8: an eigenvalue run ends exactly when i_iter reaches N_iter, after
\* N_iter source loops; a fixed-source run ends exactly after a source loop
\* that leaves bank_stored empty.
C8_SimulationEnd ==
    /\ mode_eigenvalue => (i_iter <= N_iter /\ n_loops <= N_iter)
    /\ pc = "manage" =>
          IF mode_eigenvalue
            THEN /\ n_loops = i_iter
                 /\ simulation_end <=> (i_iter = N_iter)
            ELSE simulation_end <=> (lists[bank_stored] = << >>)
    /\ pc = "done" =>
          /\ simulation_end
          /\ mode_eigenvalue => n_loops = N_iter

\* C8 witness: a fixed-source run has ended after its second source loop.
C8_Witness ==
    /\ pc = "done"
    /\ ~mode_eigenvalue
    /\ n_loops = 2

\* C9, aliasing: inside a source loop bank_fission is the list bank_stored
\* (eigenvalue) or bank_history (fixed source) is bound to, and the census
\* grid of an eigenvalue run is [INF].
C9_FissionAlias ==
    /\ pc \in {"source", "get_source", "history", "particle"} =>
          bank_fission = IF mode_eigenvalue THEN bank_stored ELSE bank_history
    /\ (mode_eigenvalue /\ pc # "setup") => census_time = << INF >>

\* C9, content: a tracking step adds to bank_stored only by a collision
\* (fission) in eigenvalue mode and only by a census in fixed-source mode.
C9_StoredOrigin ==
    (TrackingStep /\ lists'[bank_stored] # lists[bank_stored]) =>
        event' = IF mode_eigenvalue THEN EVENT_COLLISION ELSE EVENT_CENSUS

\* C9: bank_stored holds only census survivors in fixed-source mode and only
\* fission progeny in eigenvalue mode; bank_fission is the list bound to
\* bank_stored or bank_history, also after bank_stored has been rebound.
C9_StoredBank == []C9_FissionAlias /\ [][C9_StoredOrigin]_vars

\* C9 witness: in the second iteration of an eigenvalue run a fission has
\* banked its progeny in the rebound bank_stored.
C9_Witness ==
    /\ mode_eigenvalue
    /\ n_loops = 2
    /\ pc = "particle"
    /\ event = EVENT_COLLISION
    /\ ~P.alive
    /\ lists[bank_stored] # << >>
    /\ bank_fission = bank_stored

\* C10, step: a tracking step leaves the weight of the particle and of every
\* banked particle alone, and whatever it banks carries the particle's weight.
C10_StepWeight ==
    TrackingStep =>
        /\ P'.wgt = P.wgt
        /\ P'.wgt_old = P.wgt
        /\ \A id \in {bank_stored, bank_history} :
              /\ Len(lists'[id]) >= Len(lists[id])
              /\ SubSeq(lists'[id], 1, Len(lists[id])) = lists[id]
              /\ \A k \in 1..Len(Appended(id)) :
                    Appended(id)[k].wgt = P.wgt

\* C10: no step of loop_particle changes the particle's weight; fission
\* progeny and census copies carry the weight of the particle they come from.
C10_WeightKept == [][C10_StepWeight]_vars

\* C10 witness: a fission has just banked a neutron with its parent's weight.
C10_Witness ==
    /\ pc = "particle"
    /\ event = EVENT_COLLISION
    /\ ~P.alive
    /\ lists[bank_fission] # << >>
    /\ lists[bank_fission][Len(lists[bank_fission])].wgt = P.wgt
    /\ lists[bank_fission][Len(lists[bank_fission])].time = P.time

\* time_idx can index census_time.
ValidTimeIdx(p) == p.time_idx \in 0..(Len(census_time) - 1)

\* C11: whenever loop_particle is about to read census_time[P.time_idx] for
\* an alive particle, 0 <= time_idx < len(census_time); the same holds of
\* every alive particle waiting in a bank, whether it came from a source,
\* from bank_source or from a fission.
C11_ValidTimeIdx ==
    /\ (pc = "particle" /\ P.alive) => ValidTimeIdx(P)
    /\ \A id \in {bank_history, bank_source, bank_stored} :
          \A k \in 1..Len(lists[id]) :
              lists[id][k].alive => ValidTimeIdx(lists[id][k])

\* C11 witness: in a second source loop a particle taken from bank_source is
\* alive in loop_particle with the last valid index, while a source particle
\* born past the last census could not have been.
C11_Witness ==
    /\ pc = "particle"
    /\ P.alive
    /\ n_loops = 2
    /\ lists[bank_source] # << >>
    /\ P.time_idx = Len(census_time) - 1
    /\ P.time_idx >= 1

\* ---------------------------------------------------- claims on one step

\* The cells of the list that accept the point x.
Accepting(x) == { k \in 1..Len(cells) : test_point(cells[k], x) }

\* k is the first cell of the list that accepts x.
FirstAccepting(k, x) ==
    /\ k \in Accepting(x)
    /\ \A j \in 1..(k - 1) : j \notin Accepting(x)

\* C12: set_cell gives the particle the first cell of the list that accepts
\* its position, for a source particle without a cell and for an alive
\* particle after a surface event; when no cell accepts it the run exits and
\* the cell is left as it was.
C12_SetCell ==
    /\ (pc = "loop" /\ n_steps = 0 /\ at_entry.cell = 0) =>
          FirstAccepting(cell, pos)
    /\ (pc = "score" /\ event = EVENT_SURFACE /\ P.alive) =>
          FirstAccepting(cell, pos)
    /\ pc = "lost" =>
          /\ Accepting(pos) = {}
          /\ cell = at_entry.cell

\* C12 witness: after a surface event the particle is alive at a point two
\* cells accept, and it has moved from the second cell of the list to the
\* first.
C12_Witness ==
    /\ pc = "score"
    /\ event = EVENT_SURFACE
    /\ P.alive
    /\ Cardinality(Accepting(pos)) = 2
    /\ cell = 1
    /\ cell_old = 2

\* C13 as stated: after surface_hit a particle the BC left alive has been
\* moved by the kick SMALL beyond the surface; a particle the BC killed has
\* not been moved and its recorded distance is the distance to the surface.
C13_KickOnlyAlive ==
    (pc = "score" /\ event = EVENT_SURFACE) =>
        IF P.alive
          THEN /\ P.distance = d_move + SMALL
               /\ P.time = at_entry.time + d_move + SMALL
          ELSE /\ P.distance = d_move
               /\ P.time = at_entry.time + d_move

\* C14, dispatch: xi selects exactly one reaction by the two thresholds, and
\* only scattering leaves the particle alive.
C14_Dispatch ==
    (pc \in {"score", "zero_division"} /\ event = EVENT_COLLISION) =>
        LET S == SigmaS(at_entry.cell, at_entry.g)
            F == SigmaF(at_entry.cell, at_entry.g)
        IN  /\ xi \in 0..(SigmaT(at_entry.cell, at_entry.g) - 1)
            /\ reaction = "scatter" <=> xi < S
            /\ reaction = "fission" <=> (S <= xi /\ xi < S + F)
            /\ reaction = "capture" <=> xi >= S + F
            /\ P.alive <=> reaction = "scatter"

\* C14, banks: a fission appends to bank_fission only; scattering and capture
\* leave every bank as it was.
C14_Banks ==
    (pc = "perform" /\ event = EVENT_COLLISION /\ pc' # "perform") =>
        /\ \A id \in ListIds :
              (id # bank_fission \/ reaction' # "fission") =>
                  lists'[id] = lists[id]
        /\ Len(lists'[bank_fission]) >= Len(lists[bank_fission])
        /\ SubSeq(lists'[bank_fission], 1, Len(lists[bank_fission]))
              = lists[bank_fission]

\* C14: a collision is dispatched to exactly one of scattering, fission and
\* capture by xi against SigmaS and SigmaS + SigmaF; scattering leaves the
\* particle alive, fission and capture kill it; only fission banks, and only
\* in bank_fission.
C14_Collision == []C14_Dispatch /\ [][C14_Banks]_vars

\* C14 witness: xi = SigmaS, the lower edge of the fission interval: the
\* particle fissioned, is dead, and its progeny is in bank_fission.
C14_Witness ==
    /\ pc = "score"
    /\ event = EVENT_COLLISION
    /\ xi = SigmaS(at_entry.cell, at_entry.g)
    /\ reaction = "fission"
    /\ ~P.alive
    /\ lists[bank_fission] # << >>

\* C15: in every iteration the shadow state is saved before any sampling or
\* move, T.score is called exactly once after the event, also for a particle
\* the event killed, and the record is reset after the score; the score sees
\* the weight, group and cell of the top of the iteration and the distance
\* moved in this iteration alone.
C15_ScoreOrder ==
    /\ pc = "distances" =>
          /\ P.distance = 0
          /\ P.time = at_entry.time
    /\ pc \in {"distances", "select", "selected", "perform", "score"} =>
          /\ n_score = n_steps - 1
          /\ scored = NoScore
          /\ P.wgt_old = at_entry.wgt
          /\ g_old = at_entry.g
          /\ cell_old = at_entry.cell
    /\ pc = "reset" =>
          /\ n_score = n_steps
          /\ scored = [wgt      |-> at_entry.wgt,
                       g        |-> at_entry.g,
                       cell     |-> at_entry.cell,
                       distance |-> P.time - at_entry.time]
    /\ pc \in {"loop", "returned"} =>
          /\ n_score = n_steps
          /\ P.distance = 0

\* C15 witness: the second iteration killed the particle and was scored, with
\* the distance of that iteration and a group and a cell the first iteration
\* changed.
C15_Witness ==
    /\ pc = "reset"
    /\ ~P.alive
    /\ n_steps = 2
    /\ n_score = 2
    /\ scored.distance > 0
    /\ scored.distance < P.time
    /\ scored.wgt = 2

\* C19 as stated: scatter takes the branch with y and z interchanged exactly
\* when |dir.z| = 1, and the divisor B of the branch it takes is not zero.
C19_ScatterGuard ==
    reaction = "scatter" =>
        /\ rot.swapped <=> at_entry.dir[3] \in {1, 0 - 1}
        /\ rot.B2 # 0

\* ---------------------------------------------- claims on the iterations

\* The calls closeout(N_hist, 0), ..., closeout(N_hist, n - 1).
CloseoutsUpTo(n) == [k \in 1..n |-> << N_hist, k - 1 >>]

\* C16: in eigenvalue mode the tallies are closed out once per iteration, as
\* closeout(N_hist, i) for i = 0, 1, ... in order, each right after its source
\* loop and with the index not yet incremented; in fixed-source mode no
\* closeout is made inside the simulation loop, and exactly one,
\* closeout(N_hist, 0), after it.
C16_Closeout ==
    /\ mode_eigenvalue =>
          /\ closeouts = CloseoutsUpTo(i_iter)
          /\ pc \in {"source", "get_source", "history", "particle", "closeout"}
                => i_iter = n_loops - 1
          /\ pc = "done" => closeouts = CloseoutsUpTo(N_iter)
    /\ ~mode_eigenvalue =>
          closeouts = IF pc = "done" THEN << << N_hist, 0 >> >> ELSE << >>

\* C16 witness: a fixed-source run that took two source loops has returned
\* with its single closeout.
C16_Witness ==
    /\ pc = "done"
    /\ ~mode_eigenvalue
    /\ n_loops = 2
    /\ closeouts = << << N_hist, 0 >> >>

\* The source loop is running.
InSourceLoop == pc \in {"source", "get_source", "history", "particle"}

\* C17, state: the accumulator is 0 when a source loop starts and between the
\* iterations, and the k_eff a source loop samples fission with is k_init in
\* the first iteration and afterwards the one recorded for the iteration
\* before.
C17_KeffInLoop ==
    mode_eigenvalue =>
        /\ Len(k_mean) = i_iter
        /\ (pc = "source" /\ i = 0) => nuSigmaF_sum = 0
        /\ pc \in {"manage", "rebase", "pct", "rotate", "loop_top", "done"}
              => nuSigmaF_sum = 0
        /\ InSourceLoop =>
              k_eff = IF n_loops = 1 THEN K_INIT ELSE k_mean[n_loops - 1]

\* C17, steps: a tracking step adds w_old * distance * nu * SigmaF of the
\* cell and group the step started in (the distance is the time moved, the
\* speed being 1); the closeout after a source loop sets k_eff to the reduced
\* sum over work_size_total, records it as k_mean[i_iter] and resets the sum.
C17_KeffStep ==
    /\ (mode_eigenvalue /\ TrackingStep /\ pc' = "particle") =>
          nuSigmaF_sum' =
              nuSigmaF_sum + P.wgt * (P'.time - P.time) * NuSigmaF(cell, g)
    /\ (mode_eigenvalue /\ pc = "closeout" /\ pc' = "manage") =>
          /\ \E others \in OtherRankSums :
                k_eff' = << nuSigmaF_sum + others, N_hist >>
          /\ k_mean' = Append(k_mean, k_eff')
          /\ Len(k_mean') = i_iter + 1
          /\ nuSigmaF_sum' = 0

C18_BanksBetween ==
    /\ (pc = "loop_top" /\ ~simulation_end) =>
          /\ lists[bank_stored] = << >>
          /\ bank_stored # bank_source
    /\ InSourceLoop => bank_stored # bank_source
    /\ ((pc = "loop_top" /\ simulation_end) \/ pc = "done") =>
          /\ lists[bank_source] = << >>
          /\ lists[bank_stored] = << >>
          /\ lists[bank_history] = << >>

\* C18, steps: after a source loop that does not end the simulation the
\* driver normalises bank_stored (eigenvalue mode only), then rebases the RNG,
\* then runs PCT on bank_stored, then rotates: bank_source becomes the bank
\* PCT returned and bank_stored a new empty list.
C18_ManageStep ==
    /\ (pc = "manage" /\ pc' # pc) =>
          IF simulation_end
            THEN /\ pc' = "loop_top"
                 /\ lists'[bank_source'] = << >>
                 /\ lists'[bank_stored'] = << >>
            ELSE /\ pc' = "rebase"
                 /\ rng' = rng
                 /\ refs' = refs
                 /\ ~mode_eigenvalue => lists' = lists
                 /\ \A id \in ListIds :
                       id # bank_stored => lists'[id] = lists[id]
                 /\ Len(lists'[bank_stored]) = Len(lists[bank_stored])
    /\ (pc = "rebase" /\ pc' # pc) =>
          /\ pc' = "pct"
          /\ lists' = lists
          /\ refs' = refs
          /\ rng'.seed = rng'.seed_base
    /\ (pc = "pct" /\ pc' # pc) =>
          /\ pc' = "rotate"
          /\ rng'.seed_base = rng.seed_base
          /\ bank_source' = bank_source
          /\ pct = "SS" => (bank_stored' = bank_stored /\ lists' = lists)
    /\ (pc = "rotate" /\ pc' # pc) =>
          /\ pc' = "loop_top"
          /\ bank_source' = bank_stored
          /\ lists'[bank_source'] = lists[bank_stored]
          /\ lists'[bank_stored'] = << >>
          /\ bank_stored' # bank_source'

\* C18: the order of the bank management between two iterations and the
\* state of the banks after the rotation and after the end of the simulation.
C18_BankRotation == []C18_BanksBetween /\ [][C18_ManageStep]_vars

\* C18 witness: an eigenvalue run with the comb PCT has rotated its banks:
\* the second source loop is about to start from a non-empty bank_source and
\* an empty bank_stored.
C18_Witness ==
    /\ pc = "loop_top"
    /\ ~simulation_end
    /\ mode_eigenvalue
    /\ pct = "CO"
    /\ n_loops = 1
    /\ lists[bank_source] # << >>
    /\ lists[bank_stored] = << >>

\* C20 as stated, on a rank that holds every history: a source loop that
\* draws from a non-empty bank_source never indexes past its end, and when the
\* loop is over it has started one history for each particle of bank_source.
C20_SourceBankConsumed ==
    (work_size = N_hist /\ lists[bank_source] # << >>) =>
        /\ pc = "get_source" => i < Len(lists[bank_source])
        /\ pc = "closeout" => n_started = Len(lists[bank_source])

\* The source loop counted from 0 that is running or was run last.
n_loop == n_loops - 1

\* The model stops following a history at Horizon: a particle still alive
\* there stands for a history that does not terminate.
HistoryRunsOn == pc = "particle" /\ P.alive /\ P.time > Horizon

\* The model stops as well when the only step left is a census that would
\* bank a copy in a bank_stored already MaxBank long.
BankCapReached ==
    /\ CanStep
    /\ Len(lists[bank_stored]) >= MaxBank
    /\ \A sel \in Steps(P) : sel.event = EVENT_CENSUS
    /\ P.time_idx + 1 < Len(census_time)

\* run() has returned, or the process has exited (sys.exit, IndexError).
RunEnded == pc \in {"done", "aborted"}

\* C21, state: in fixed-source mode there are at most len(census_time) source
\* loops; the particle tracked in source loop n and the particles waiting in
\* bank_history have time_idx >= n; the source loop n = len(census_time) - 1
\* leaves bank_stored empty.
C21_LoopBound ==
    ~mode_eigenvalue =>
        /\ n_loops <= Len(census_time)
        /\ (pc = "particle" /\ P.alive) => P.time_idx >= n_loop
        /\ InSourceLoop =>
              \A k \in 1..Len(lists[bank_history]) :
                  lists[bank_history][k].alive =>
                      lists[bank_history][k].time_idx >= n_loop
        /\ InSourceLoop =>
              \A k \in 1..Len(lists[bank_stored]) :
                  lists[bank_stored][k].time_idx >= n_loop + 1
        /\ (n_loops = Len(census_time) /\ (InSourceLoop \/ pc = "closeout")) =>
              lists[bank_stored] = << >>

\* C21, steps: in fixed-source mode a tracking step that crosses a census
\* ends the particle and puts nothing into bank_history, so no particle
\* crosses two census times in one source loop; every other tracking step
\* keeps time_idx, and what it adds to bank_history has the same time_idx.
C21_OneCensus ==
    (~mode_eigenvalue /\ TrackingStep) =>
        IF event' = EVENT_CENSUS
          THEN /\ ~P'.alive
               /\ lists'[bank_history] = lists[bank_history]
          ELSE /\ P'.time_idx = P.time_idx
               /\ lists'[bank_stored] = lists[bank_stored]
               /\ \A k \in 1..Len(Appended(bank_history)) :
                     Appended(bank_history)[k].time_idx = P.time_idx

StreamPositionsAgree ==
    /\ rng.seed = Advance(LCG_SEED, rng_pos.at)
    /\ rng.seed_base = Advance(LCG_SEED, rng_pos.base)

\* The consumer drew no more than one stride.
WithinStride(c) == c.hi - c.lo <= LCG_STRIDE

\* The ranges [lo, hi) of two consumers share no position.
Disjoint(a, b) == a.hi <= b.lo \/ b.hi <= a.lo \/ a.lo = a.hi \/ b.lo = b.hi

\* C22 as stated: among the consumers that drew no more than one stride, the
\* range of the PCT call between the source loops n and n+1 is disjoint from
\* the range of every history of the loops n and n+1, and the ranges of any
\* two histories are disjoint.
C22_StreamsDisjoint ==
    \A a, b \in consumers :
        (a # b /\ WithinStride(a) /\ WithinStride(b)) =>
            /\ (a.kind = "history" /\ b.kind = "history") => Disjoint(a, b)
            /\ (a.kind = "pct" /\ b.kind = "history"
                  /\ b.loop \in {a.loop, a.loop + 1}) => Disjoint(a, b)

====
